---- MODULE Spec2Model ----
(***************************************************************************)
(* Root-of-trust audit / reconcile engine of kfutil (cmd/rot.go).          *)
(*                                                                         *)
(* generateAuditReport is modelled statement by statement: one step per    *)
(* certificate lookup and one step per (certificate, store) row.  Go's map *)
(* iteration order is unspecified, so every "range" over a map picks the   *)
(* next key nondeterministically.  Collaborator calls (certificate lookup, *)
(* add / remove request) and ledger writes succeed or fail                 *)
(* nondeterministically.  The CSV file is modelled at the record level: a  *)
(* sequence of records, each a sequence of field strings; the quoting done *)
(* by encoding/csv is not modelled (no field of the model's alphabet needs *)
(* quoting), its field-count rule is.                                      *)
(***************************************************************************)
EXTENDS Integers, Sequences, FiniteSets, TLC

(***************************************************************************)
(* Bounds of the model.                                                    *)
(***************************************************************************)
\* Largest number of thumbprint entries in the add list plus the remove list.
MaxListed == 2
\* Largest number of actions in an actions map handed directly to
\* reconcileRoots (specification RecSpec).
MaxActs == 2
\* Largest number of records in a ledger file handed to reconcile --import-csv
\* (specification LoadSpec).
MaxRows == 3
\* Largest number of items in a store's inventory, and of certificate
\* entries in the whole inventory (specification ClassSpec).
MaxInv == 2

(***************************************************************************)
(* Input alphabet.                                                         *)
(***************************************************************************)
Thumbs == {"AAA111", "BBB222"}
StoreIDs == {"s-01", "s-02"}
TimeStamps == {"2022-10-27 10:00:00", "2022-10-27 10:00:01"}

\* What the certificate lookup collaborator answers for a thumbprint
\* (api.GetCertificateContext: Id, IssuedDN, IssuerDN).
CertIDOf(t) == IF t = "AAA111" THEN 7 ELSE 12
IssuedDNOf(t) == IF t = "AAA111" THEN "CN=RootA" ELSE "CN=RootB"
IssuerDNOf(t) == IF t = "AAA111" THEN "CN=RootA" ELSE "CN=RootB"

\* The stores-file columns of a store (entry[1], entry[2], entry[3]).
StoreTypeOf(s) == IF s = "s-01" THEN "PEM" ELSE "JKS"
StoreMachineOf(s) == IF s = "s-01" THEN "hostA" ELSE "hostB"
StorePathOf(s) == IF s = "s-01" THEN "/etc/ssl/roots.pem" ELSE "/opt/trust.jks"

None == "<none>"

(***************************************************************************)
(* Types and constants of rot.go.                                          *)
(***************************************************************************)
AuditHeader ==
    << "Thumbprint", "CertID", "SubjectName", "Issuer", "StoreID", "StoreType",
       "Machine", "Path", "AddCert", "RemoveCert", "Deployed", "AuditDate" >>

StoreCSVEntry(id, thumbprints) ==
    [ ID |-> id, Type |-> StoreTypeOf(id), Machine |-> StoreMachineOf(id),
      Path |-> StorePathOf(id), Thumbprints |-> thumbprints ]

ROTAction(thumbprint, certID, storeID, storeType, storePath, addCert, removeCert) ==
    [ StoreID |-> storeID, StoreType |-> storeType, StorePath |-> storePath,
      Thumbprint |-> thumbprint, CertID |-> certID,
      AddCert |-> addCert, RemoveCert |-> removeCert ]

(***************************************************************************)
(* strconv.                                                                *)
(***************************************************************************)
DigitChars == << "0", "1", "2", "3", "4", "5", "6", "7", "8", "9" >>

RECURSIVE ItoaNat(_)
ItoaNat(n) ==
    IF n < 10 THEN DigitChars[n + 1]
    ELSE ItoaNat(n \div 10) \o DigitChars[(n % 10) + 1]

\* strconv.Itoa
Itoa(n) == IF n < 0 THEN "-" \o ItoaNat(0 - n) ELSE ItoaNat(n)

IsDigit(c) == \E i \in 1..10 : DigitChars[i] = c
DigitVal(c) == (CHOOSE i \in 1..10 : DigitChars[i] = c) - 1

\* The character of s at position i.
CharAt(s, i) == SubSeq(s, i, i)

\* s[i..] consists of decimal digits only.
AllDigits(s, i) == \A j \in i..Len(s) : IsDigit(CharAt(s, j))

RECURSIVE DigitsVal(_, _, _)
\* The value of the decimal digits s[i..], after the digits that gave acc.
DigitsVal(s, i, acc) ==
    IF i > Len(s) THEN acc
    ELSE DigitsVal(s, i + 1, acc * 10 + DigitVal(CharAt(s, i)))

\* Where the digits of s start: after an optional sign.
DigitsFrom(s) == IF Len(s) > 0 /\ CharAt(s, 1) \in {"+", "-"} THEN 2 ELSE 1

\* strconv.Atoi: iErr == nil
AtoiOk(s) == DigitsFrom(s) <= Len(s) /\ AllDigits(s, DigitsFrom(s))

\* strconv.Atoi: the value when iErr == nil
Atoi(s) ==
    IF Len(s) > 0 /\ CharAt(s, 1) = "-"
    THEN 0 - DigitsVal(s, 2, 0)
    ELSE DigitsVal(s, DigitsFrom(s), 0)

\* strconv.ParseBool with the error dropped (addCert, _ := ...): every
\* string that is not a true literal yields false.
ParseBool(s) == s \in {"1", "t", "T", "TRUE", "true", "True"}

(***************************************************************************)
(* State.                                                                  *)
(***************************************************************************)
VARIABLES
    cmd,        \* the command running: "audit", "reconcile", "replay", "direct"
    dryRun,     \* --dry-run
    now,        \* what GetCurrentTime() returns during this run
    addCerts,   \* certsToAdd   (readCertsFile: thumbprint -> thumbprint)
    removeCerts,\* certsToRemove
    stores,     \* map store ID -> StoreCSVEntry of the classified root stores
    pc,         \* position of the run
    todo,       \* thumbprints the current "range" over the cert map has left
    cur,        \* the thumbprint of the running outer iteration, or None
    storesLeft, \* store IDs the inner "range stores" has left
    data,       \* generateAuditReport: data [][]string
    pairs,      \* history: pairs[i] is the (pass, cert, store) iteration that made
                \* data[i+1], with the actions it appended
    csvOut,     \* records handed to csvWriter.Write, in call order
    file,       \* records the writer accepted (rot_audit.csv after Flush/Close)
    diskFaulty, \* environment: writes to the ledger file may start to fail
    wfail,      \* the ledger writer has failed (bufio errors are sticky)
    lookups,    \* certificate lookups issued: [pass, thumbprint, ok]
    actions,    \* generateAuditReport: actions map[string][]ROTAction
    rActions,   \* reconcileRoots: its actions argument
    rTodo,      \* reconcileRoots: thumbprints the outer range has left
    rCur,       \* reconcileRoots: thumbprint of the running outer iteration
    rIdx,       \* reconcileRoots: index of the last action handled in rActions[rCur]
    calls,      \* add / remove requests issued: [op, thumbprint, idx, ..., err]
    dryLog,     \* "DRY RUN: Would have ..." lines: [op, thumbprint, idx]
    storesFile, \* the records of the --stores CSV file
    sIdx,       \* how many records of storesFile the command's loop has handled
    inventory,  \* the server: store ID -> what GetCertStoreInventory answers
    minCerts,   \* --min-certs
    maxLeaves,  \* --max-leaf-certs
    maxKeys,    \* --max-keys
    lookupFailures, \* the command's lookupFailures []string
    storeLookups,   \* store lookups issued: [id, ok]
    verdict,    \* the isRootStore calls made: store ID -> its counts and result
    run,        \* which audit run of the same inputs this is (1 or 2)
    prevRows,   \* the rows of the first run, AuditDate set aside
    prevLookups \* the certificate lookups of the first run

vars == << cmd, dryRun, now, addCerts, removeCerts, stores, pc, todo, cur,
           storesLeft, data, pairs, csvOut, file, diskFaulty, wfail, lookups, actions,
           rActions, rTodo, rCur, rIdx, calls, dryLog,
           storesFile, sIdx, inventory, minCerts, maxLeaves, maxKeys,
           lookupFailures, storeLookups, verdict, run, prevRows, prevLookups >>

\* The flags.
flagVars == << minCerts, maxLeaves, maxKeys >>
\* The state of the commands' loop over the stores file.
frontVars == << storesFile, sIdx, inventory, flagVars, lookupFailures,
                storeLookups, verdict >>
\* What is kept of an earlier run.
prevVars == << run, prevRows, prevLookups >>
\* What generateAuditReport and reconcileRoots leave alone.
inputVars == << now, addCerts, removeCerts, stores, diskFaulty, frontVars, prevVars >>
genVars == << todo, cur, storesLeft, data, pairs, csvOut, file, wfail, lookups, actions >>
recVars == << rActions, rTodo, rCur, rIdx, calls, dryLog >>

EmptyMap == [ k \in {} |-> << >> ]

\* The action is put in front of the thumbprint's list.
MapAppendFront(m, k, a) ==
    IF k \in DOMAIN m
    THEN [ m EXCEPT ![k] = << a >> \o @ ]
    ELSE [ x \in (DOMAIN m) \cup {k} |-> IF x = k THEN << a >> ELSE m[x] ]

\* Go: m[k] = append(m[k], a)
MapAppend(m, k, a) ==
    IF k \in DOMAIN m
    THEN [ m EXCEPT ![k] = Append(@, a) ]
    ELSE [ x \in (DOMAIN m) \cup {k} |-> IF x = k THEN << a >> ELSE m[x] ]

\* The store maps the commands can hand to generateAuditReport.
StoreMaps ==
    UNION { [ ids -> SUBSET Thumbs ] : ids \in SUBSET StoreIDs }

MkStores(inv) == [ s \in DOMAIN inv |-> StoreCSVEntry(s, inv[s]) ]

\* The commands' loop over the stores file is not part of the run.
FrontIdle ==
    /\ storesFile = << >>
    /\ sIdx = 0
    /\ inventory = EmptyMap
    /\ minCerts = -1
    /\ maxLeaves = -1
    /\ maxKeys = -1
    /\ lookupFailures = << >>
    /\ storeLookups = << >>
    /\ verdict = EmptyMap

\* A first run.
PrevIdle ==
    /\ run = 1
    /\ prevRows = {}
    /\ prevLookups = << >>

Init ==
    /\ cmd \in {"audit", "reconcile"}
    /\ dryRun \in BOOLEAN
    /\ now \in TimeStamps
    /\ addCerts \in SUBSET Thumbs
    /\ removeCerts \in SUBSET Thumbs
    /\ Cardinality(addCerts) + Cardinality(removeCerts) <= MaxListed
    /\ \E inv \in StoreMaps : stores = MkStores(inv)
    /\ pc = "start"
    /\ todo = {}
    /\ cur = None
    /\ storesLeft = {}
    /\ data = << >>
    /\ pairs = << >>
    /\ csvOut = << >>
    /\ file = << >>
    /\ diskFaulty = FALSE
    /\ wfail = FALSE
    /\ lookups = << >>
    /\ actions = EmptyMap
    /\ rActions = EmptyMap
    /\ rTodo = {}
    /\ rCur = None
    /\ rIdx = 0
    /\ calls = << >>
    /\ dryLog = << >>
    /\ FrontIdle
    /\ PrevIdle

(***************************************************************************)
(* generateAuditReport (rot.go 95-216).                                    *)
(***************************************************************************)
\* GetCurrentTime(): the AuditDate column.
GetCurrentTime == now

\* The add pass's rows with the two cases swapped.
AddPassRowSwapped(cert, store) ==
    IF cert \in store.Thumbprints
    THEN << cert, Itoa(CertIDOf(cert)), IssuedDNOf(cert), IssuerDNOf(cert),
            store.ID, store.Type, store.Machine, store.Path,
            "true", "false", "false", GetCurrentTime >>
    ELSE << cert, Itoa(CertIDOf(cert)), IssuedDNOf(cert), IssuerDNOf(cert),
            store.ID, store.Type, store.Machine, store.Path,
            "false", "false", "true", GetCurrentTime >>

\* rot.go 132-159: the row of one (cert, store) pairing of the add pass.
AddPassRow(cert, store) ==
    IF cert \in store.Thumbprints
    THEN << cert, Itoa(CertIDOf(cert)), IssuedDNOf(cert), IssuerDNOf(cert),
            store.ID, store.Type, store.Machine, store.Path,
            "false", "false", "true", GetCurrentTime >>
    ELSE << cert, Itoa(CertIDOf(cert)), IssuedDNOf(cert), IssuerDNOf(cert),
            store.ID, store.Type, store.Machine, store.Path,
            "true", "false", "false", GetCurrentTime >>

\* rot.go 150-158: the actions the add pass appends for one pairing.
AddPassActions(cert, store) ==
    IF cert \in store.Thumbprints
    THEN << >>
    ELSE << ROTAction(cert, CertIDOf(cert), store.ID, store.Type, store.Path,
                      TRUE, FALSE) >>

\* rot.go 178-205: the row of one (cert, store) pairing of the remove pass.
RemovePassRow(cert, store) ==
    IF cert \in store.Thumbprints
    THEN << cert, Itoa(CertIDOf(cert)), store.ID, store.Type, store.Machine,
            store.Path, "false", "true", "true" >>
    ELSE << cert, Itoa(CertIDOf(cert)), store.ID, store.Type, store.Machine,
            store.Path, "false", "false", "false" >>

\* The remove pass's action, its AddCert left true as in the add pass.
RemovePassActionsBothFlags(cert, store) ==
    IF cert \in store.Thumbprints
    THEN << ROTAction(cert, CertIDOf(cert), store.ID, store.Type, store.Path,
                      TRUE, TRUE) >>
    ELSE << >>

\* The remove pass plans a removal for every store, deployed there or not.
RemovePassActionsAlways(cert, store) ==
    << ROTAction(cert, CertIDOf(cert), store.ID, store.Type, store.Path,
                 FALSE, TRUE) >>

\* rot.go 187-195: the actions the remove pass appends for one pairing.
RemovePassActions(cert, store) ==
    IF cert \in store.Thumbprints
    THEN << ROTAction(cert, CertIDOf(cert), store.ID, store.Type, store.Path,
                      FALSE, TRUE) >>
    ELSE << >>

\* m[k] = append(m[k], as...) for the zero or one actions of a pairing.
AppendActions(m, k, as) == IF as = << >> THEN m ELSE MapAppend(m, k, as[1])

\* A row whose write failed is not kept in the table.
EmitRowDropOnError(pass, cert, s, row, as, werr) ==
    /\ data' = IF werr THEN data ELSE Append(data, row)
    /\ pairs' = Append(pairs, [ pass |-> pass, cert |-> cert, store |-> s,
                                appended |-> as ])
    /\ csvOut' = Append(csvOut, row)
    /\ file' = IF werr THEN file ELSE Append(file, row)
    /\ wfail' = werr

\* No-op rows (neither flag set) are kept in the table but not handed to the
\* ledger writer.
EmitRowSkipsNoop(pass, cert, s, row, as, werr) ==
    /\ data' = Append(data, row)
    /\ pairs' = Append(pairs, [ pass |-> pass, cert |-> cert, store |-> s,
                                appended |-> as ])
    /\ csvOut' = IF as = << >> THEN csvOut ELSE Append(csvOut, row)
    /\ file' = IF werr \/ as = << >> THEN file ELSE Append(file, row)
    /\ wfail' = werr

\* data = append(data, row); wErr := csvWriter.Write(row); a write error is
\* printed and the loop goes on.
EmitRow(pass, cert, s, row, as, werr) ==
    /\ data' = Append(data, row)
    /\ pairs' = Append(pairs, [ pass |-> pass, cert |-> cert, store |-> s,
                                appended |-> as ])
    /\ csvOut' = Append(csvOut, row)
    /\ file' = IF werr THEN file ELSE Append(file, row)
    /\ wfail' = werr

\* csvWriter.Write returns an error once the disk has failed, and from then on.
WriteOutcomes == IF wfail THEN {TRUE} ELSE IF diskFaulty THEN BOOLEAN ELSE {FALSE}

\* The two errors are printed and the function goes on.
GenOpenErrorsPrinted ==
    /\ pc = "start"
    /\ data' = << AuditHeader >>
    /\ \E outcome \in {"ok", "createErr", "headerErr"} :
          /\ csvOut' = IF outcome = "createErr" THEN << >> ELSE << AuditHeader >>
          /\ file' = IF outcome = "ok" THEN << AuditHeader >> ELSE << >>
          /\ pc' = "add"
          /\ todo' = addCerts
    /\ UNCHANGED << cmd, dryRun, inputVars, cur, storesLeft, pairs, wfail,
                    lookups, actions, recVars >>

\* rot.go 101-113: data gets the header, the file is created, the header written;
\* either failure is log.Fatalf.
GenOpen ==
    /\ pc = "start"
    /\ data' = << AuditHeader >>
    /\ \E outcome \in {"ok", "createErr", "headerErr"} :
          IF outcome = "ok"
          THEN /\ csvOut' = << AuditHeader >>
               /\ file' = << AuditHeader >>
               /\ pc' = "add"
               /\ todo' = addCerts
          ELSE /\ csvOut' = IF outcome = "headerErr" THEN << AuditHeader >> ELSE << >>
               /\ file' = << >>
               /\ pc' = "fatal"
               /\ todo' = {}
    /\ UNCHANGED << cmd, dryRun, inputVars, cur, storesLeft, pairs, wfail,
                    lookups, actions, recVars >>

\* The lookup without its "continue": the store loop runs for a thumbprint
\* that did not resolve.
LookupNoContinue(pass) ==
    /\ pc = pass
    /\ cur = None
    /\ \E cert \in todo, ok \in BOOLEAN :
          /\ todo' = todo \ {cert}
          /\ lookups' = Append(lookups, [ pass |-> pass, cert |-> cert, ok |-> ok ])
          /\ IF DOMAIN stores # {}
             THEN cur' = cert /\ storesLeft' = DOMAIN stores
             ELSE cur' = None /\ storesLeft' = {}
    /\ UNCHANGED << cmd, dryRun, inputVars, pc, data, pairs, csvOut, file, wfail,
                    actions, recVars >>

\* A failed lookup returns from generateAuditReport at once (what "return
\* data, actions, err" would do).
LookupReturnOnError(pass) ==
    /\ pc = pass
    /\ cur = None
    /\ \E cert \in todo, ok \in BOOLEAN :
          /\ lookups' = Append(lookups, [ pass |-> pass, cert |-> cert, ok |-> ok ])
          /\ IF ~ok
             THEN pc' = "returned" /\ todo' = {} /\ cur' = None /\ storesLeft' = {}
             ELSE /\ pc' = pc
                  /\ todo' = todo \ {cert}
                  /\ IF DOMAIN stores # {}
                     THEN cur' = cert /\ storesLeft' = DOMAIN stores
                     ELSE cur' = None /\ storesLeft' = {}
    /\ UNCHANGED << cmd, dryRun, inputVars, data, pairs, csvOut, file, wfail,
                    actions, recVars >>

\* rot.go 115-130 / 162-176: next cert of the range, its lookup; a failed
\* lookup is "continue".
Lookup(pass) ==
    /\ pc = pass
    /\ cur = None
    /\ \E cert \in todo, ok \in BOOLEAN :
          /\ todo' = todo \ {cert}
          /\ lookups' = Append(lookups, [ pass |-> pass, cert |-> cert, ok |-> ok ])
          /\ IF ok /\ DOMAIN stores # {}
             THEN cur' = cert /\ storesLeft' = DOMAIN stores
             ELSE cur' = None /\ storesLeft' = {}
    /\ UNCHANGED << cmd, dryRun, inputVars, pc, data, pairs, csvOut, file, wfail,
                    actions, recVars >>

AddLookup == Lookup("add")

\* The add pass notes the planned add in the store's thumbprint index.
AddRowMarksDeployed ==
    /\ pc = "add"
    /\ cur # None
    /\ \E s \in storesLeft, werr \in WriteOutcomes :
          /\ EmitRow("add", cur, s, AddPassRow(cur, stores[s]),
                     AddPassActions(cur, stores[s]), werr)
          /\ actions' = AppendActions(actions, cur, AddPassActions(cur, stores[s]))
          /\ stores' = [ stores EXCEPT ![s].Thumbprints = @ \cup {cur} ]
          /\ storesLeft' = storesLeft \ {s}
          /\ cur' = IF storesLeft = {s} THEN None ELSE cur
    /\ UNCHANGED << cmd, dryRun, now, addCerts, removeCerts, diskFaulty, frontVars,
                    prevVars, pc, todo, lookups, recVars >>

\* rot.go 131-160: one iteration of "for _, store := range stores" in the add pass.
AddRow ==
    /\ pc = "add"
    /\ cur # None
    /\ \E s \in storesLeft, werr \in WriteOutcomes :
          /\ EmitRow("add", cur, s, AddPassRow(cur, stores[s]),
                     AddPassActions(cur, stores[s]), werr)
          /\ actions' = AppendActions(actions, cur, AddPassActions(cur, stores[s]))
          /\ storesLeft' = storesLeft \ {s}
          /\ cur' = IF storesLeft = {s} THEN None ELSE cur
    /\ UNCHANGED << cmd, dryRun, inputVars, pc, todo, lookups, recVars >>

\* rot.go 161-162: the add range is exhausted, the remove range starts.
AddDone ==
    /\ pc = "add"
    /\ cur = None
    /\ todo = {}
    /\ pc' = "remove"
    /\ todo' = removeCerts
    /\ UNCHANGED << cmd, dryRun, inputVars, cur, storesLeft, data, pairs, csvOut,
                    file, wfail, lookups, actions, recVars >>

RemoveLookup == Lookup("remove")

\* rot.go 177-206: one iteration of "for _, store := range stores" in the remove pass.
RemoveRow ==
    /\ pc = "remove"
    /\ cur # None
    /\ \E s \in storesLeft, werr \in WriteOutcomes :
          /\ EmitRow("remove", cur, s, RemovePassRow(cur, stores[s]),
                     RemovePassActions(cur, stores[s]), werr)
          /\ actions' = AppendActions(actions, cur, RemovePassActions(cur, stores[s]))
          /\ storesLeft' = storesLeft \ {s}
          /\ cur' = IF storesLeft = {s} THEN None ELSE cur
    /\ UNCHANGED << cmd, dryRun, inputVars, pc, todo, lookups, recVars >>

\* rot.go 208-215: Flush, Close, return data, actions, nil.
GenClose ==
    /\ pc = "remove"
    /\ cur = None
    /\ todo = {}
    /\ pc' = "returned"
    /\ UNCHANGED << cmd, dryRun, inputVars, genVars, recVars >>

(***************************************************************************)
(* reconcile --import-csv: loading a ledger (rot.go 544-603).              *)
(***************************************************************************)
UpperChars == << "A", "B", "C", "D", "E", "F", "G", "H", "I", "J", "K", "L", "M",
                 "N", "O", "P", "Q", "R", "S", "T", "U", "V", "W", "X", "Y", "Z" >>
LowerChars == << "a", "b", "c", "d", "e", "f", "g", "h", "i", "j", "k", "l", "m",
                 "n", "o", "p", "q", "r", "s", "t", "u", "v", "w", "x", "y", "z" >>

FoldChar(c) ==
    IF \E i \in 1..26 : UpperChars[i] = c
    THEN LowerChars[CHOOSE i \in 1..26 : UpperChars[i] = c]
    ELSE c

\* strings.EqualFold (ASCII): same length, and the same character at every
\* position up to case.
EqualFold(a, b) ==
    /\ Len(a) = Len(b)
    /\ \A i \in 1..Len(a) : FoldChar(CharAt(a, i)) = FoldChar(CharAt(b, i))

RECURSIVE Join(_, _)
\* strings.Join
Join(row, sep) ==
    IF Len(row) = 0 THEN ""
    ELSE IF Len(row) = 1 THEN row[1]
    ELSE row[1] \o sep \o Join(Tail(row), sep)

AuditHeaderLine == Join(AuditHeader, ",")

\* rot.go 555: the row is the audit header.
IsAuditHeader(row) == EqualFold(Join(row, ","), AuditHeaderLine)

\* csv.Reader.ReadAll with FieldsPerRecord = 0: every record must have the
\* field count of the first one.
ReadAllOk(f) == \A i \in 1..Len(f) : Len(f[i]) = Len(f[1])

\* fieldMap of rot.go 550-553 inverted: the position of a column.
ColumnOf(name) == CHOOSE i \in 1..Len(AuditHeader) : AuditHeader[i] = name

\* rot.go 565-573: action[name] holds a string / an int / nothing.
HasString(row, name) == ColumnOf(name) <= Len(row) /\ ~AtoiOk(row[ColumnOf(name)])
HasInt(row, name) == ColumnOf(name) <= Len(row) /\ AtoiOk(row[ColumnOf(name)])

\* rot.go 575-586: every type assertion of the row succeeds (no panic).
RowAsserts(row) ==
    /\ HasString(row, "AddCert")
    /\ HasString(row, "RemoveCert")
    /\ HasString(row, "StoreID")
    /\ HasString(row, "StoreType")
    /\ HasString(row, "Path")
    /\ HasString(row, "Thumbprint")
    /\ HasInt(row, "CertID")

\* rot.go 575-586: the ROTAction of a data row.
RowAction(row) ==
    ROTAction(row[ColumnOf("Thumbprint")], Atoi(row[ColumnOf("CertID")]),
              row[ColumnOf("StoreID")], row[ColumnOf("StoreType")],
              row[ColumnOf("Path")], ParseBool(row[ColumnOf("AddCert")]),
              ParseBool(row[ColumnOf("RemoveCert")]))

RECURSIVE LoadRowsNoGate(_, _, _)
\* The loop without its "if !validHeader" test.
LoadRowsNoGate(rows, validHeader, acc) ==
    IF rows = << >> THEN [ status |-> "ok", actions |-> acc ]
    ELSE IF IsAuditHeader(Head(rows)) THEN LoadRowsNoGate(Tail(rows), TRUE, acc)
    ELSE IF ~RowAsserts(Head(rows)) THEN [ status |-> "panic", actions |-> EmptyMap ]
    ELSE LoadRowsNoGate(Tail(rows), validHeader,
                        MapAppend(acc, RowAction(Head(rows)).Thumbprint, RowAction(Head(rows))))

RECURSIVE LoadRows(_, _, _)
\* rot.go 554-599: the loop over the records; "fatal" is log.Fatalf, "panic" a
\* failed type assertion.
LoadRows(rows, validHeader, acc) ==
    IF rows = << >> THEN [ status |-> "ok", actions |-> acc ]
    ELSE IF IsAuditHeader(Head(rows)) THEN LoadRows(Tail(rows), TRUE, acc)
    ELSE IF ~validHeader THEN [ status |-> "fatal", actions |-> EmptyMap ]
    ELSE IF ~RowAsserts(Head(rows)) THEN [ status |-> "panic", actions |-> EmptyMap ]
    ELSE LoadRows(Tail(rows), validHeader,
                  MapAppend(acc, RowAction(Head(rows)).Thumbprint, RowAction(Head(rows))))

\* rot.go 544-599: ReadAll, then the loop.
LoadLedger(f) ==
    IF ~ReadAllOk(f) THEN [ status |-> "fatal", actions |-> EmptyMap ]
    ELSE LoadRows(f, FALSE, EmptyMap)

(***************************************************************************)
(* reconcileRoots (rot.go 218-281).                                        *)
(***************************************************************************)
\* The call of reconcileRoots(acts, kfClient, dryRun) with a non-empty map.
ReconcileEnter(acts) ==
    /\ rActions' = acts
    /\ rTodo' = DOMAIN acts
    /\ rCur' = None
    /\ rIdx' = 0
    /\ pc' = "reconcile"

\* The two branches in the other order: RemoveCert is tested first.
BranchRemoveFirst(a, dry) ==
    IF a.RemoveCert THEN (IF dry THEN "dryRemove" ELSE "remove")
    ELSE IF a.AddCert THEN (IF dry THEN "dryAdd" ELSE "add")
    ELSE "none"

\* The remove branch without its dry-run test.
BranchRemoveUngated(a, dry) ==
    IF a.AddCert THEN (IF dry THEN "dryAdd" ELSE "add")
    ELSE IF a.RemoveCert THEN "remove"
    ELSE "none"

\* rot.go 226-277: what one action does: "add" / "remove" request, a dry-run
\* line, or nothing.
Branch(a, dry) ==
    IF a.AddCert THEN (IF dry THEN "dryAdd" ELSE "add")
    ELSE IF a.RemoveCert THEN (IF dry THEN "dryRemove" ELSE "remove")
    ELSE "none"

\* rot.go 229-243 / 254-268: the request handed to the collaborator.
Request(op, th, i, a, err) ==
    [ op |-> op, thumbprint |-> th, idx |-> i, CertificateId |-> a.CertID,
      CertificateStoreId |-> a.StoreID,
      Alias |-> IF op = "remove" THEN a.Thumbprint ELSE "",
      Overwrite |-> (op = "add"), err |-> err ]

\* rot.go 218-223: reconcileRoots is entered; an empty map returns at once.
ReconcileCall ==
    /\ pc = "call"
    /\ IF DOMAIN rActions = {}
       THEN pc' = "done" /\ UNCHANGED << rActions, rTodo, rCur, rIdx >>
       ELSE ReconcileEnter(rActions)
    /\ UNCHANGED << cmd, dryRun, inputVars, genVars, calls, dryLog >>

\* A failed request ends the whole run (what "return err" would do).
AdvanceAbortOnError(th, i, err) ==
    IF err
    THEN [ todo |-> {}, cur |-> None, idx |-> 0 ]
    ELSE [ todo |-> rTodo \ {th},
           cur |-> IF i = Len(rActions[th]) THEN None ELSE th,
           idx |-> IF i = Len(rActions[th]) THEN 0 ELSE i ]

\* A failed request is issued once more before the loop goes on.
AdvanceRetryOnce(th, i, err) ==
    IF err /\ ~\E k \in 1..Len(calls) : calls[k].thumbprint = th /\ calls[k].idx = i
    THEN [ todo |-> rTodo \ {th}, cur |-> th, idx |-> i - 1 ]
    ELSE [ todo |-> rTodo \ {th},
           cur |-> IF i = Len(rActions[th]) THEN None ELSE th,
           idx |-> IF i = Len(rActions[th]) THEN 0 ELSE i ]

\* rot.go 244-247, 269-272, 277-279: after action i of thumbprint th, with or
\* without an error ("continue" in the add branch, fall-through in the remove
\* branch), the loops go on with the next action of th, or the next thumbprint.
Advance(th, i, err) ==
    [ todo |-> rTodo \ {th},
      cur |-> IF i = Len(rActions[th]) THEN None ELSE th,
      idx |-> IF i = Len(rActions[th]) THEN 0 ELSE i ]

\* rot.go 224-279: one iteration of "for _, a := range action".
ReconcileStep ==
    /\ pc = "reconcile"
    /\ \E th \in (IF rCur = None THEN rTodo ELSE {rCur}) :
          LET i == rIdx + 1
              a == rActions[th][i]
              br == Branch(a, dryRun)
          IN  /\ \E err \in (IF br \in {"add", "remove"} THEN BOOLEAN ELSE {FALSE}) :
                    /\ calls' = IF br \in {"add", "remove"}
                                THEN Append(calls, Request(br, th, i, a, err))
                                ELSE calls
                    /\ rTodo' = Advance(th, i, err).todo
                    /\ rCur' = Advance(th, i, err).cur
                    /\ rIdx' = Advance(th, i, err).idx
              /\ dryLog' = IF br \in {"dryAdd", "dryRemove"}
                           THEN Append(dryLog, [ op |-> br, thumbprint |-> th, idx |-> i ])
                           ELSE dryLog
    /\ UNCHANGED << cmd, dryRun, inputVars, genVars, pc, rActions >>

\* rot.go 280: return nil.
ReconcileReturn ==
    /\ pc = "reconcile"
    /\ rCur = None
    /\ rTodo = {}
    /\ pc' = "done"
    /\ UNCHANGED << cmd, dryRun, inputVars, genVars, recVars >>

(***************************************************************************)
(* isRootStore (rot.go 299-331).                                           *)
(***************************************************************************)
\* The certificate entries an inventory item can hold
\* (api.InventoriedCertificate): a self-signed root and a leaf issued by it.
InvCerts ==
    { [ Thumbprint |-> "AAA111", IssuedDN |-> IssuedDNOf("AAA111"),
        IssuerDN |-> IssuerDNOf("AAA111") ],
      [ Thumbprint |-> "CCC333", IssuedDN |-> "CN=www.example.com",
        IssuerDN |-> IssuerDNOf("AAA111") ] }

\* api.CertStoreInventory: the certificate entries of one item, its
\* parameters, and the thumbprints of its entries.
InventoryItem(certs, key) ==
    [ Certificates |-> certs,
      Parameters |-> [ PrivateKeyEntry |-> key ],
      Thumbprints |-> { certs[i].Thumbprint : i \in 1..Len(certs) } ]

\* The items with at most n certificate entries.
ItemsUpTo(n) ==
    { InventoryItem(certs, key) :
        certs \in UNION { [ 1..k -> InvCerts ] : k \in 0..n }, key \in {"Yes", "No"} }

RECURSIVE InventoriesOver(_, _)
\* The inventories of at most `items` items and at most `certs` certificate
\* entries in all.
InventoriesOver(items, certs) ==
    IF items = 0 THEN { << >> }
    ELSE { << >> } \cup
         UNION { { << it >> \o rest :
                     rest \in InventoriesOver(items - 1, certs - Len(it.Certificates)) } :
                 it \in ItemsUpTo(certs) }

Inventories == InventoriesOver(MaxInv, MaxInv)

\* The values of --min-certs, --max-keys, --max-leaf-certs.
Thresholds == -1 .. MaxInv

RECURSIVE CertLoop(_, _, _)
\* rot.go 307-314: "for _, cert := range inv.Certificates" from entry j on;
\* c holds certCount, leafCount, keyCount.
CertLoop(inv, j, c) ==
    IF j > Len(inv.Certificates) THEN c
    ELSE CertLoop(inv, j + 1,
             [ c EXCEPT !.leafCount =
                          IF inv.Certificates[j].IssuedDN # inv.Certificates[j].IssuerDN
                          THEN @ + 1 ELSE @,
                        !.keyCount =
                          IF inv.Parameters.PrivateKeyEntry = "Yes" THEN @ + 1 ELSE @ ])

RECURSIVE InvLoop(_, _, _)
\* rot.go 303-315: "for _, inv := range *invs" from item i on.
InvLoop(invs, i, c) ==
    IF i > Len(invs) THEN c
    ELSE InvLoop(invs, i + 1,
             CertLoop(invs[i], 1,
                 [ c EXCEPT !.certCount = @ + Len(invs[i].Certificates) ]))

\* rot.go 300-315: the three counters when the loops are done.
Counts(invs) == InvLoop(invs, 1, [ certCount |-> 0, leafCount |-> 0, keyCount |-> 0 ])

\* The maxLeaf test with "> 0" for ">= 0".
isRootStoreZeroIsNoLimit(invs, minC, maxK, maxL) ==
    IF Counts(invs).certCount < minC /\ minC >= 0 THEN FALSE
    ELSE IF Counts(invs).leafCount > maxL /\ maxL > 0 THEN FALSE
    ELSE IF Counts(invs).keyCount > maxK /\ maxK >= 0 THEN FALSE
    ELSE TRUE

\* rot.go 299, 316-330: isRootStore(st, invs, minCerts, maxKeys, maxLeaf); st
\* is used for log lines only.
isRootStore(invs, minC, maxK, maxL) ==
    IF Counts(invs).certCount < minC /\ minC >= 0 THEN FALSE
    ELSE IF Counts(invs).leafCount > maxL /\ maxL >= 0 THEN FALSE
    ELSE IF Counts(invs).keyCount > maxK /\ maxK >= 0 THEN FALSE
    ELSE TRUE

\* What one isRootStore call computed and returned.
Verdict(invs, minC, maxK, maxL) ==
    [ certCount |-> Counts(invs).certCount, leafCount |-> Counts(invs).leafCount,
      keyCount |-> Counts(invs).keyCount, root |-> isRootStore(invs, minC, maxK, maxL) ]

(***************************************************************************)
(* The commands (rot.go 370-477, 517-706).                                 *)
(***************************************************************************)
\* The audit applies what it planned unless --dry-run is given.
AuditReturnReconciles ==
    /\ pc = "returned"
    /\ cmd = "audit"
    /\ IF dryRun \/ DOMAIN actions = {}
       THEN pc' = "done" /\ UNCHANGED << rActions, rTodo, rCur, rIdx >>
       ELSE ReconcileEnter(actions)
    /\ UNCHANGED << cmd, dryRun, inputVars, genVars, calls, dryLog >>

\* rot.go 473-476: audit ends after generateAuditReport.
AuditReturn ==
    /\ pc = "returned"
    /\ cmd = "audit"
    /\ pc' = "done"
    /\ UNCHANGED << cmd, dryRun, inputVars, genVars, recVars >>

\* reconcileRoots is entered as soon as the add pass is over, while the
\* remove pass still has rows to write.
ReconcileGeneratedEarly ==
    /\ pc = "remove"
    /\ cur = None
    /\ cmd = "reconcile"
    /\ IF DOMAIN actions = {}
       THEN pc' = "done" /\ UNCHANGED << rActions, rTodo, rCur, rIdx >>
       ELSE ReconcileEnter(actions)
    /\ UNCHANGED << cmd, dryRun, inputVars, genVars, calls, dryLog >>

\* rot.go 687-699: reconcile applies the actions generateAuditReport returned.
ReconcileGenerated ==
    /\ pc = "returned"
    /\ cmd = "reconcile"
    /\ IF DOMAIN actions = {}
       THEN pc' = "done" /\ UNCHANGED << rActions, rTodo, rCur, rIdx >>
       ELSE ReconcileEnter(actions)
    /\ UNCHANGED << cmd, dryRun, inputVars, genVars, calls, dryLog >>

\* rot.go 535-608: a later "reconcile --import-csv" run replays the ledger the
\* audit wrote.
ReplayLoad ==
    /\ pc = "done"
    /\ cmd = "audit"
    /\ cmd' = "replay"
    /\ \E r \in { LoadLedger(file) } :
          /\ IF r.status # "ok"
             THEN pc' = r.status /\ UNCHANGED << rActions, rTodo, rCur, rIdx >>
             ELSE IF DOMAIN r.actions = {}
             THEN pc' = "done" /\ rActions' = r.actions /\ UNCHANGED << rTodo, rCur, rIdx >>
             ELSE ReconcileEnter(r.actions)
          /\ dryRun' \in BOOLEAN
    /\ UNCHANGED << inputVars, genVars, calls, dryLog >>

Next ==
    \/ GenOpen
    \/ AddLookup
    \/ AddRow
    \/ AddDone
    \/ RemoveLookup
    \/ RemoveRow
    \/ GenClose
    \/ AuditReturn
    \/ ReconcileGenerated
    \/ ReplayLoad
    \/ ReconcileStep
    \/ ReconcileReturn

Spec == Init /\ [][Next]_vars

(***************************************************************************)
(* reconcileRoots called on any actions map (specification RecSpec).       *)
(***************************************************************************)
\* The actions a list under thumbprint th can hold: any store, any flags.
ActionsOf(th) ==
    { ROTAction(th, CertIDOf(th), s, StoreTypeOf(s), StorePathOf(s), add, rem) :
        s \in StoreIDs, add \in BOOLEAN, rem \in BOOLEAN }

ListsOf(th) == UNION { [ 1..k -> ActionsOf(th) ] : k \in 0..MaxActs }

RECURSIVE MapsOver(_, _)
\* The maps with keys among `keys`, a non-empty list under each key, and at
\* most n actions in all.
MapsOver(keys, n) ==
    IF keys = {} THEN { EmptyMap }
    ELSE LET k == CHOOSE x \in keys : TRUE
         IN  UNION { { IF l = << >> THEN m
                       ELSE [ x \in (DOMAIN m) \cup {k} |-> IF x = k THEN l ELSE m[x] ] :
                         m \in MapsOver(keys \ {k}, n - Len(l)) } :
                     l \in { x \in ListsOf(k) : Len(x) <= n } }

\* Go maps thumbprint -> non-empty list, with at most MaxActs actions in all.
ActionMaps == MapsOver(Thumbs, MaxActs)

InitRec ==
    /\ cmd = "direct"
    /\ dryRun \in BOOLEAN
    /\ now = None
    /\ addCerts = {}
    /\ removeCerts = {}
    /\ stores = EmptyMap
    /\ pc = "call"
    /\ todo = {}
    /\ cur = None
    /\ storesLeft = {}
    /\ data = << >>
    /\ pairs = << >>
    /\ csvOut = << >>
    /\ file = << >>
    /\ diskFaulty = FALSE
    /\ wfail = FALSE
    /\ lookups = << >>
    /\ actions = EmptyMap
    /\ rActions \in ActionMaps
    /\ rTodo = {}
    /\ rCur = None
    /\ rIdx = 0
    /\ calls = << >>
    /\ dryLog = << >>
    /\ FrontIdle
    /\ PrevIdle

NextRec ==
    \/ ReconcileCall
    \/ ReconcileStep
    \/ ReconcileReturn

RecSpec == InitRec /\ [][NextRec]_vars

\* reconcileRoots is one sequential loop whose collaborator calls return: a
\* step that is possible is eventually taken.
RecFairSpec == RecSpec /\ WF_vars(NextRec)

\* The positions (thumbprint, index) of the actions of reconcileRoots' map.
Positions == UNION { { << th, i >> : i \in 1..Len(rActions[th]) } : th \in DOMAIN rActions }

ActionAt(p) == rActions[p[1]][p[2]]

CallsFor(p) == { k \in 1..Len(calls) : calls[k].thumbprint = p[1] /\ calls[k].idx = p[2] }
DryLinesFor(p) == { k \in 1..Len(dryLog) : dryLog[k].thumbprint = p[1] /\ dryLog[k].idx = p[2] }

Flagged(p) == ActionAt(p).AddCert \/ ActionAt(p).RemoveCert

\* The states of the Reconciler's per-action state machine, read off what the
\* run did for the action: a request that returned no error, a request that
\* returned an error, a dry-run line.
Applied(p) == \E k \in CallsFor(p) : ~calls[k].err
Failed(p) == \E k \in CallsFor(p) : calls[k].err
Skipped(p) == DryLinesFor(p) # {}
Pending(p) == CallsFor(p) = {} /\ DryLinesFor(p) = {}

ExactlyOneTerminal(p) ==
    \/ Applied(p) /\ ~Failed(p) /\ ~Skipped(p)
    \/ Failed(p) /\ ~Applied(p) /\ ~Skipped(p)
    \/ Skipped(p) /\ ~Applied(p) /\ ~Failed(p)

(***************************************************************************)
(* C1.  Dry-run gate: with dryRun = true reconcileRoots issues no add and  *)
(* no remove request, for every actions map (any size, any mix of flags).  *)
(***************************************************************************)
C1_DryRunGate == dryRun => calls = << >>

\* A dry run that went through an add action and a remove action.
C1_Witness ==
    /\ dryRun
    /\ pc = "done"
    /\ \E k \in 1..Len(dryLog) : dryLog[k].op = "dryAdd"
    /\ \E k \in 1..Len(dryLog) : dryLog[k].op = "dryRemove"

(***************************************************************************)
(* C2.  Failure isolation: with dryRun = false, whatever requests fail,    *)
(* the run ends with a request issued for every action that has AddCert or *)
(* RemoveCert set; a failed request stops no later action, of the same or  *)
(* of another thumbprint.                                                  *)
(***************************************************************************)
C2_FailureIsolation ==
    (pc = "done" /\ ~dryRun) => \A p \in Positions : Flagged(p) => CallsFor(p) # {}

\* A finished run whose first request (an add) failed and was followed by
\* another request.
C2_Witness ==
    /\ pc = "done"
    /\ ~dryRun
    /\ Len(calls) = 2
    /\ calls[1].err
    /\ calls[1].op = "add"

(***************************************************************************)
(* C3.  Per-action state machine.  As claimed: the run ends with EVERY     *)
(* action in exactly one of Applied, Skipped (dry-run), Failed.            *)
(***************************************************************************)
C3_Original == pc = "done" => \A p \in Positions : ExactlyOneTerminal(p)

(***************************************************************************)
(* C3, amended.  Every action that has AddCert or RemoveCert set moves     *)
(* from Pending to exactly one of Applied, Skipped, Failed and stays       *)
(* there; no action causes more than one request or dry-run line (a failed *)
(* request is not retried); an action with neither flag stays Pending; the *)
(* run always terminates, with every flagged action terminal.              *)
(***************************************************************************)
C3_StateMachine ==
    /\ [](\A p \in Positions :
            /\ Cardinality(CallsFor(p)) + Cardinality(DryLinesFor(p)) <= 1
            /\ Flagged(p) => (Pending(p) \/ ExactlyOneTerminal(p))
            /\ ~Flagged(p) => Pending(p))
    /\ [][\A p \in Positions :
            /\ (Applied(p) => Applied(p)')
            /\ (Failed(p) => Failed(p)')
            /\ (Skipped(p) => Skipped(p)')]_vars
    /\ [](pc = "done" => \A p \in Positions : Flagged(p) => ExactlyOneTerminal(p))
    /\ <>(pc = "done")

\* A finished run with one action Failed and another Applied.
C3_Witness ==
    /\ pc = "done"
    /\ \E p \in Positions : Failed(p)
    /\ \E p \in Positions : Applied(p)

(***************************************************************************)
(* The audit table and the actions map of generateAuditReport.             *)
(***************************************************************************)
\* What a row shows in the column the header names: a row too short to have
\* the column shows nothing.
ColumnReads(row, name, v) == ColumnOf(name) <= Len(row) /\ row[ColumnOf(name)] = v

RowAdd(row) == ColumnReads(row, "AddCert", "true")
RowRemove(row) == ColumnReads(row, "RemoveCert", "true")

\* The row of the i-th (pass, cert, store) iteration.
RowOf(i) == data[i + 1]

\* The thumbprints whose lookup succeeded in a pass.
Resolved(pass) ==
    { lookups[k].cert : k \in { j \in 1..Len(lookups) : lookups[j].pass = pass /\ lookups[j].ok } }

\* The actions the map holds for a thumbprint.
ActionList(t) == IF t \in DOMAIN actions THEN actions[t] ELSE << >>

\* How many actions of actions[t] are for store s with the given flags.
CountActions(t, s, add, rem) ==
    Cardinality({ k \in 1..Len(ActionList(t)) :
                    /\ ActionList(t)[k].StoreID = s
                    /\ ActionList(t)[k].AddCert = add
                    /\ ActionList(t)[k].RemoveCert = rem })

(***************************************************************************)
(* C4.  Round trip: loading the ledger generateAuditReport wrote yields    *)
(* the actions map generateAuditReport returned (same keys, same actions,  *)
(* nothing for no-op rows).                                                *)
(***************************************************************************)
C4_RoundTrip ==
    cmd = "replay" => (pc \notin {"fatal", "panic"} /\ rActions = actions)

(***************************************************************************)
(* C5.  Ledger schema: every row generateAuditReport emits, in either      *)
(* pass, has exactly the 12 columns of AuditHeader.                        *)
(***************************************************************************)
C5_LedgerSchema == \A i \in 1..Len(data) : Len(data[i]) = Len(AuditHeader)

C7_ActionRowCorrespondence ==
    \A i \in 1..Len(pairs) :
        /\ (pairs[i].appended # << >>) <=> (RowAdd(RowOf(i)) \/ RowRemove(RowOf(i)))
        /\ \A k \in 1..Len(pairs[i].appended) :
              /\ pairs[i].appended[k].AddCert = RowAdd(RowOf(i))
              /\ pairs[i].appended[k].RemoveCert = RowRemove(RowOf(i))

(***************************************************************************)
(* C8.  Mutual exclusivity: no row and no Action of generateAuditReport    *)
(* has both AddCert=true and RemoveCert=true, overlapping lists included.  *)
(***************************************************************************)
C8_MutualExclusivity ==
    /\ \A i \in 1..Len(data) : ~(RowAdd(data[i]) /\ RowRemove(data[i]))
    /\ \A t \in DOMAIN actions : \A k \in 1..Len(actions[t]) :
          ~(actions[t][k].AddCert /\ actions[t][k].RemoveCert)

\* A thumbprint in both lists got an add Action for one store and a remove
\* Action for another.
C8_Witness ==
    /\ pc = "returned"
    /\ \E t \in addCerts \cap removeCerts :
          /\ \E k \in 1..Len(ActionList(t)) : ActionList(t)[k].AddCert
          /\ \E k \in 1..Len(ActionList(t)) : ActionList(t)[k].RemoveCert

(***************************************************************************)
(* C9.  Add-pass decision: for a resolved add thumbprint t and a store s,  *)
(* if t is in s's thumbprint index the row shows AddCert=false,            *)
(* RemoveCert=false, Deployed=true and no Action is appended; otherwise    *)
(* the row shows true, false, false and exactly one Action{AddCert=true,   *)
(* RemoveCert=false} for s is appended to actions[t].                      *)
(***************************************************************************)
C9_AddPassDecision ==
    \A i \in 1..Len(pairs) :
        pairs[i].pass = "add" =>
            LET t == pairs[i].cert
                s == pairs[i].store
                row == RowOf(i)
            IN  IF t \in stores[s].Thumbprints
                THEN /\ ColumnReads(row, "AddCert", "false")
                     /\ ColumnReads(row, "RemoveCert", "false")
                     /\ ColumnReads(row, "Deployed", "true")
                     /\ pairs[i].appended = << >>
                     /\ CountActions(t, s, TRUE, FALSE) = 0
                     /\ CountActions(t, s, TRUE, TRUE) = 0
                ELSE /\ ColumnReads(row, "AddCert", "true")
                     /\ ColumnReads(row, "RemoveCert", "false")
                     /\ ColumnReads(row, "Deployed", "false")
                     /\ Len(pairs[i].appended) = 1
                     /\ pairs[i].appended[1].StoreID = s
                     /\ pairs[i].appended[1].Thumbprint = t
                     /\ CountActions(t, s, TRUE, FALSE) = 1
                     /\ Len(ActionList(t)) =
                           Cardinality({ j \in 1..Len(pairs) :
                                           pairs[j].cert = t /\ pairs[j].appended # << >> })

\* The add pass met a store that has the thumbprint and a store that lacks it.
C9_Witness ==
    /\ pc = "returned"
    /\ \E i, j \in 1..Len(pairs) :
          /\ pairs[i].pass = "add"
          /\ pairs[j].pass = "add"
          /\ pairs[i].cert \in stores[pairs[i].store].Thumbprints
          /\ pairs[j].cert \notin stores[pairs[j].store].Thumbprints

(***************************************************************************)
(* C10.  Remove-pass decision: for a resolved remove thumbprint t and a    *)
(* store s, if t is in s's thumbprint index the row's AddCert, RemoveCert, *)
(* Deployed columns read false, true, true and exactly one                 *)
(* Action{RemoveCert=true, AddCert=false} for s is appended to actions[t]; *)
(* otherwise they read false, false, false and no Action is appended.      *)
(***************************************************************************)
C10_RemovePassDecision ==
    \A i \in 1..Len(pairs) :
        pairs[i].pass = "remove" =>
            LET t == pairs[i].cert
                s == pairs[i].store
                row == RowOf(i)
            IN  IF t \in stores[s].Thumbprints
                THEN /\ ColumnReads(row, "AddCert", "false")
                     /\ ColumnReads(row, "RemoveCert", "true")
                     /\ ColumnReads(row, "Deployed", "true")
                     /\ Len(pairs[i].appended) = 1
                     /\ pairs[i].appended[1].StoreID = s
                     /\ CountActions(t, s, FALSE, TRUE) = 1
                ELSE /\ ColumnReads(row, "AddCert", "false")
                     /\ ColumnReads(row, "RemoveCert", "false")
                     /\ ColumnReads(row, "Deployed", "false")
                     /\ pairs[i].appended = << >>
                     /\ CountActions(t, s, FALSE, TRUE) = 0

(***************************************************************************)
(* C11.  Certificate lookup failure is skipped, not fatal: a thumbprint    *)
(* whose lookup failed in a pass gets no row and no Action in that pass;   *)
(* the failure never ends the run; when generateAuditReport returns, every *)
(* thumbprint of both lists has been looked up and every resolved one has  *)
(* its row for every store.                                                *)
(***************************************************************************)
C11_CertLookupSkipped ==
    /\ \A k \in 1..Len(lookups) :
          ~lookups[k].ok =>
              \A i \in 1..Len(pairs) :
                  ~(pairs[i].pass = lookups[k].pass /\ pairs[i].cert = lookups[k].cert)
    /\ (pc = "fatal" /\ cmd \in {"audit", "reconcile"}) => lookups = << >>
    /\ (pc \in {"add", "remove"}) => ENABLED (AddLookup \/ AddRow \/ AddDone
                                               \/ RemoveLookup \/ RemoveRow \/ GenClose)
    /\ pc = "returned" =>
          /\ { lookups[k].cert : k \in { j \in 1..Len(lookups) : lookups[j].pass = "add" } }
                = addCerts
          /\ { lookups[k].cert : k \in { j \in 1..Len(lookups) : lookups[j].pass = "remove" } }
                = removeCerts
          /\ \A pass \in {"add", "remove"} : \A t \in Resolved(pass) : \A s \in DOMAIN stores :
                \E i \in 1..Len(pairs) :
                    pairs[i].pass = pass /\ pairs[i].cert = t /\ pairs[i].store = s

\* A run that returned after its first lookup failed and a later one
\* succeeded and produced a row.
C11_Witness ==
    /\ pc = "returned"
    /\ Len(lookups) = 2
    /\ ~lookups[1].ok
    /\ lookups[2].ok
    /\ \E i \in 1..Len(pairs) : pairs[i].cert = lookups[2].cert

(***************************************************************************)
(* The commands from their stores file on (specification CmdSpec):         *)
(* rot.go 386-442 and 613-669, then generateAuditReport and, for           *)
(* reconcile, reconcileRoots.                                              *)
(***************************************************************************)
StoreHeader ==
    << "StoreID", "StoreType", "StoreMachine", "StorePath", "ContainerId",
       "ContainerName", "LastQueriedDate" >>

StoreHeaderLine == Join(StoreHeader, ",")

\* A data record of the stores file.
StoreRow(id) ==
    << id, StoreTypeOf(id), StoreMachineOf(id), StorePathOf(id), "", "", "" >>

\* The store IDs in some order, none twice.
IdSeqs ==
    { q \in UNION { [ 1..k -> StoreIDs ] : k \in 0..Cardinality(StoreIDs) } :
        \A i, j \in 1..Len(q) : q[i] = q[j] => i = j }

\* The stores files: with or without the header record, then data records.
StoresFiles ==
    { [ i \in 1..Len(q) |-> StoreRow(q[i]) ] : q \in IdSeqs }
    \cup { << StoreHeader >> \o [ i \in 1..Len(q) |-> StoreRow(q[i]) ] : q \in IdSeqs }

\* The store IDs of the data records of a stores file.
IdsIn(f) == { f[i][1] : i \in 1..Len(f) } \cap StoreIDs

\* What the server holds for a store in CmdSpec: at most one item with at
\* most one certificate entry.
CmdInventories == InventoriesOver(1, 1)

\* rot.go 392: the record is the stores header.
IsStoreHeader(entry) == EqualFold(Join(entry, ","), StoreHeaderLine)

\* rot.go 390-395: validHeader after sIdx records.
ValidHeader == \E k \in 1..sIdx : IsStoreHeader(storesFile[k])

\* Go: m[k] = v
MapPut(m, k, v) == [ x \in (DOMAIN m) \cup {k} |-> IF x = k THEN v ELSE m[x] ]

\* rot.go 429-433 / 648-652: the thumbprints of all items of the inventory.
InventoryThumbprints(invs) == UNION { invs[i].Thumbprints : i \in 1..Len(invs) }

\* rot.go 412 / 632: isRootStore(apiResp, inventory, minCerts, maxLeaves,
\* maxKeys) against the parameters (st, invs, minCerts, maxKeys, maxLeaf).
CallIsRootStore(invs) == Verdict(invs, minCerts, maxLeaves, maxKeys)

\* rot.go 412-440 / 632-659: classify the store, keep it if it is a root store.
ClassifyEntry(id) ==
    /\ verdict' = MapPut(verdict, id, CallIsRootStore(inventory[id]))
    /\ stores' = IF CallIsRootStore(inventory[id]).root
                 THEN MapPut(stores, id,
                             StoreCSVEntry(id, InventoryThumbprints(inventory[id])))
                 ELSE stores

InitCmd ==
    /\ cmd \in {"audit", "reconcile"}
    /\ dryRun \in BOOLEAN
    /\ now = CHOOSE t \in TimeStamps : TRUE
    /\ addCerts \in SUBSET {"AAA111"}
    /\ removeCerts \in SUBSET {"AAA111"}
    /\ stores = EmptyMap
    /\ pc = "stores"
    /\ todo = {}
    /\ cur = None
    /\ storesLeft = {}
    /\ data = << >>
    /\ pairs = << >>
    /\ csvOut = << >>
    /\ file = << >>
    /\ diskFaulty = FALSE
    /\ wfail = FALSE
    /\ lookups = << >>
    /\ actions = EmptyMap
    /\ rActions = EmptyMap
    /\ rTodo = {}
    /\ rCur = None
    /\ rIdx = 0
    /\ calls = << >>
    /\ dryLog = << >>
    /\ storesFile \in StoresFiles
    /\ sIdx = 0
    /\ inventory \in [ IdsIn(storesFile) -> CmdInventories ]
    /\ minCerts = -1
    /\ maxLeaves \in {-1, 0}
    /\ maxKeys \in {-1, 0}
    /\ lookupFailures = << >>
    /\ storeLookups = << >>
    /\ verdict = EmptyMap
    /\ PrevIdle

\* rot.go 391-442: one iteration of audit's "for _, entry := range storeEntries".
AuditStoreEntry ==
    /\ pc = "stores"
    /\ cmd = "audit"
    /\ sIdx < Len(storesFile)
    /\ sIdx' = sIdx + 1
    /\ LET entry == storesFile[sIdx + 1]
           id == entry[1]
       IN  IF IsStoreHeader(entry)
           THEN UNCHANGED << pc, storeLookups, lookupFailures, verdict, stores >>
           ELSE IF ~ValidHeader
           THEN /\ pc' = "fatalHeader"
                /\ UNCHANGED << storeLookups, lookupFailures, verdict, stores >>
           ELSE \E outcome \in {"ok", "lookupErr", "invErr"} :
                  /\ storeLookups' = Append(storeLookups,
                                            [ id |-> id, ok |-> outcome # "lookupErr" ])
                  \* _ = append(lookupFailures, ...): the result is dropped
                  /\ lookupFailures' = lookupFailures
                  /\ IF outcome = "lookupErr"
                     THEN UNCHANGED << pc, verdict, stores >>
                     ELSE IF outcome = "invErr"
                     \* the error is logged; isRootStore then reads *inventory
                     THEN pc' = "panic" /\ UNCHANGED << verdict, stores >>
                     ELSE pc' = pc /\ ClassifyEntry(id)
    /\ UNCHANGED << cmd, dryRun, now, addCerts, removeCerts, diskFaulty, genVars,
                    recVars, storesFile, inventory, flagVars, prevVars >>

\* rot.go 444-473: the stores are read; the lists are read; generateAuditReport.
AuditStoresDone ==
    /\ pc = "stores"
    /\ cmd = "audit"
    /\ sIdx = Len(storesFile)
    /\ pc' = "start"
    /\ UNCHANGED << cmd, dryRun, inputVars, genVars, recVars >>

\* rot.go 617-661: one iteration of reconcile's "for i, entry := range storeEntries".
ReconcileStoreEntry ==
    /\ pc = "stores"
    /\ cmd = "reconcile"
    /\ sIdx < Len(storesFile)
    /\ sIdx' = sIdx + 1
    /\ LET entry == storesFile[sIdx + 1]
           id == entry[1]
       IN  IF id = "StoreID" \/ id = "StoreId" \/ sIdx = 0
           THEN UNCHANGED << pc, storeLookups, lookupFailures, verdict, stores >>
           ELSE \E outcome \in {"ok", "lookupErr", "invErr"} :
                  /\ storeLookups' = Append(storeLookups,
                                            [ id |-> id, ok |-> outcome # "lookupErr" ])
                  /\ IF outcome = "lookupErr"
                     THEN /\ lookupFailures' = Append(lookupFailures, id)
                          /\ UNCHANGED << pc, verdict, stores >>
                     ELSE IF outcome = "invErr"
                     THEN /\ pc' = "fatalInventory"
                          /\ UNCHANGED << lookupFailures, verdict, stores >>
                     ELSE /\ pc' = pc
                          /\ lookupFailures' = lookupFailures
                          /\ ClassifyEntry(id)
    /\ UNCHANGED << cmd, dryRun, now, addCerts, removeCerts, diskFaulty, genVars,
                    recVars, storesFile, inventory, flagVars, prevVars >>

\* rot.go 662-687: after the loop, any lookup failure is log.Fatalf, and so
\* is an empty store map; otherwise generateAuditReport.
ReconcileStoresDone ==
    /\ pc = "stores"
    /\ cmd = "reconcile"
    /\ sIdx = Len(storesFile)
    /\ pc' = IF lookupFailures # << >> THEN "fatalNotFound"
             ELSE IF DOMAIN stores = {} THEN "fatalNoStores"
             ELSE "start"
    /\ UNCHANGED << cmd, dryRun, inputVars, genVars, recVars >>

NextCmd ==
    \/ AuditStoreEntry
    \/ AuditStoresDone
    \/ ReconcileStoreEntry
    \/ ReconcileStoresDone
    \/ GenOpen
    \/ AddLookup
    \/ AddRow
    \/ AddDone
    \/ RemoveLookup
    \/ RemoveRow
    \/ GenClose
    \/ AuditReturn
    \/ ReconcileGenerated
    \/ ReconcileStep
    \/ ReconcileReturn

CmdSpec == InitCmd /\ [][NextCmd]_vars

(***************************************************************************)
(* isRootStore called on any inventory and thresholds (specification       *)
(* ClassSpec).                                                             *)
(***************************************************************************)
InitClass ==
    /\ cmd = "classify"
    /\ dryRun = FALSE
    /\ now = None
    /\ addCerts = {}
    /\ removeCerts = {}
    /\ stores = EmptyMap
    /\ pc = "classify"
    /\ todo = {}
    /\ cur = None
    /\ storesLeft = {}
    /\ data = << >>
    /\ pairs = << >>
    /\ csvOut = << >>
    /\ file = << >>
    /\ diskFaulty = FALSE
    /\ wfail = FALSE
    /\ lookups = << >>
    /\ actions = EmptyMap
    /\ rActions = EmptyMap
    /\ rTodo = {}
    /\ rCur = None
    /\ rIdx = 0
    /\ calls = << >>
    /\ dryLog = << >>
    /\ storesFile = << >>
    /\ sIdx = 0
    /\ \E invs \in Inventories : inventory = [ s \in {"s-01"} |-> invs ]
    /\ minCerts \in Thresholds
    /\ maxLeaves \in Thresholds
    /\ maxKeys \in Thresholds
    /\ lookupFailures = << >>
    /\ storeLookups = << >>
    /\ verdict = EmptyMap
    /\ PrevIdle

\* isRootStore(st, invs, minCerts, maxKeys, maxLeaf) with each flag bound to
\* the parameter of its name.
Classify ==
    /\ pc = "classify"
    /\ verdict' = [ s \in DOMAIN inventory |->
                      Verdict(inventory[s], minCerts, maxKeys, maxLeaves) ]
    /\ pc' = "done"
    /\ UNCHANGED << cmd, dryRun, now, addCerts, removeCerts, stores, diskFaulty,
                    genVars, recVars, storesFile, sIdx, inventory, flagVars,
                    lookupFailures, storeLookups, prevVars >>

NextClass == Classify

ClassSpec == InitClass /\ [][NextClass]_vars

\* The certificate entries of an inventory, by position.
Entries(invs) ==
    { << i, j >> \in (1..Len(invs)) \X (1..MaxInv + 1) : j <= Len(invs[i].Certificates) }

\* totalCerts: the certificate entries across all items.
TotalCerts(invs) == Cardinality(Entries(invs))

\* The entries that are not self-signed.
LeafCerts(invs) ==
    Cardinality({ e \in Entries(invs) :
                    invs[e[1]].Certificates[e[2]].IssuedDN
                      # invs[e[1]].Certificates[e[2]].IssuerDN })

\* The items whose parameters flag a private key entry.
KeyItems(invs) ==
    Cardinality({ i \in 1..Len(invs) : invs[i].Parameters.PrivateKeyEntry = "Yes" })

(***************************************************************************)
(* C12.  Classifier decision: isRootStore returns false exactly when       *)
(* (minCerts >= 0 and totalCerts < minCerts) or (maxLeaf >= 0 and          *)
(* leafCount > maxLeaf) or (maxKeys >= 0 and keyCount > maxKeys); all      *)
(* thresholds negative accepts every store; replacing a threshold by -1    *)
(* never turns an accepted store into a rejected one; totalCerts <         *)
(* minCerts with minCerts >= 0 rejects whatever the other two are.         *)
(* keyCount is the count isRootStore compares (what it counts is C13).     *)
(***************************************************************************)
C12_ClassifierDecision ==
    \A s \in DOMAIN verdict :
        LET invs == inventory[s]
            total == TotalCerts(invs)
            leaf == LeafCerts(invs)
            key == verdict[s].keyCount
        IN  /\ verdict[s].certCount = total
            /\ verdict[s].leafCount = leaf
            /\ verdict[s].root =
                  ~(\/ minCerts >= 0 /\ total < minCerts
                    \/ maxLeaves >= 0 /\ leaf > maxLeaves
                    \/ maxKeys >= 0 /\ key > maxKeys)
            /\ isRootStore(invs, -1, -1, -1)
            /\ verdict[s].root =>
                  /\ isRootStore(invs, -1, maxKeys, maxLeaves)
                  /\ isRootStore(invs, minCerts, -1, maxLeaves)
                  /\ isRootStore(invs, minCerts, maxKeys, -1)
            /\ (minCerts >= 0 /\ total < minCerts) =>
                  \A k \in Thresholds, l \in Thresholds : ~isRootStore(invs, minCerts, k, l)

\* A store with enough certificates and few enough leaves, rejected for its
\* keys alone; all three thresholds set.
C12_Witness ==
    \E s \in DOMAIN verdict :
        /\ ~verdict[s].root
        /\ minCerts >= 0
        /\ maxLeaves >= 0
        /\ maxKeys >= 0
        /\ TotalCerts(inventory[s]) >= minCerts
        /\ LeafCerts(inventory[s]) <= maxLeaves
        /\ LeafCerts(inventory[s]) > 0
        /\ verdict[s].keyCount > maxKeys

(***************************************************************************)
(* C13.  Classifier key count: the keyCount isRootStore compares against   *)
(* maxKeys is the number of inventory items flagged as holding a private   *)
(* key entry, whatever number of certificate entries an item has.          *)
(***************************************************************************)
C13_KeyCount ==
    \A s \in DOMAIN verdict : verdict[s].keyCount = KeyItems(inventory[s])

(***************************************************************************)
(* C14.  Threshold wiring: in audit and in reconcile a store is in the     *)
(* classified store set, and gets rows and actions, only if its private    *)
(* key count does not exceed the user's --max-keys and its leaf count does *)
(* not exceed the user's --max-leaf-certs (a negative value sets no        *)
(* limit).  A store counts as exceeding --max-keys here only if it does by *)
(* the number of flagged items and by isRootStore's own keyCount alike.    *)
(***************************************************************************)
WithinUserLimits(s) ==
    /\ maxKeys >= 0 =>
          (KeyItems(inventory[s]) <= maxKeys \/ Counts(inventory[s]).keyCount <= maxKeys)
    /\ maxLeaves >= 0 => LeafCerts(inventory[s]) <= maxLeaves

C14_ThresholdWiring ==
    /\ \A s \in DOMAIN stores : WithinUserLimits(s)
    /\ \A i \in 1..Len(pairs) : WithinUserLimits(pairs[i].store)
    /\ \A t \in DOMAIN actions : \A k \in 1..Len(actions[t]) :
          WithinUserLimits(actions[t][k].StoreID)

(***************************************************************************)
(* C17.  Store lookup failure is non-fatal: in audit and in reconcile a    *)
(* stores-file row whose store cannot be looked up is skipped; the run     *)
(* never ends on it, and every store that was looked up and classified as  *)
(* a root store is handed to generateAuditReport.                          *)
(***************************************************************************)
C17_StoreLookupNonFatal ==
    /\ pc # "fatalNotFound"
    /\ (pc \notin {"stores", "fatalHeader", "fatalInventory", "fatalNoStores", "panic"}) =>
          \A k \in 1..Len(storeLookups) :
              (storeLookups[k].ok /\ verdict[storeLookups[k].id].root)
                  => storeLookups[k].id \in DOMAIN stores

(***************************************************************************)
(* C18.  Failures are accumulated: the failure list holds one entry for    *)
(* every store lookup that failed so far, naming the store, none dropped.  *)
(***************************************************************************)
C18_FailuresAccumulated ==
    LET failed == { k \in 1..Len(storeLookups) : ~storeLookups[k].ok }
    IN  /\ Len(lookupFailures) = Cardinality(failed)
        /\ \A k \in failed :
              \E j \in 1..Len(lookupFailures) :
                  \/ lookupFailures[j] = storeLookups[k].id
                  \/ lookupFailures[j] = Join(StoreRow(storeLookups[k].id), ",")

(***************************************************************************)
(* reconcile --import-csv on any ledger file (specification LoadSpec).     *)
(***************************************************************************)
RECURSIVE Lower(_, _)
\* s[i..] in lower case.
Lower(s, i) == IF i > Len(s) THEN "" ELSE FoldChar(CharAt(s, i)) \o Lower(s, i + 1)

\* A row generateAuditReport writes in its add pass.
GoodAddRow == AddPassRow("AAA111", StoreCSVEntry("s-01", {}))

\* The records a ledger file is made of here: the header as written and in
\* lower case, a row of the add pass, a 12-column remove row, a row whose
\* CertID is no integer, a row whose AddCert is no boolean literal, a row
\* whose StoreID is made of decimal digits, and a 9-field row as the remove
\* pass writes it.
LedgerRows ==
    { AuditHeader,
      [ i \in 1..Len(AuditHeader) |-> Lower(AuditHeader[i], 1) ],
      GoodAddRow,
      [ AddPassRow("BBB222", StoreCSVEntry("s-02", {"BBB222"}))
          EXCEPT ![ColumnOf("RemoveCert")] = "true" ],
      [ GoodAddRow EXCEPT ![ColumnOf("CertID")] = "x7" ],
      [ GoodAddRow EXCEPT ![ColumnOf("AddCert")] = "yes" ],
      [ GoodAddRow EXCEPT ![ColumnOf("StoreID")] = "1001" ],
      RemovePassRow("AAA111", StoreCSVEntry("s-01", {"AAA111"})) }

LedgerFiles == UNION { [ 1..k -> LedgerRows ] : k \in 0..MaxRows }

InitLoad ==
    /\ cmd = "import"
    /\ dryRun \in BOOLEAN
    /\ now = CHOOSE t \in TimeStamps : TRUE
    /\ addCerts = {}
    /\ removeCerts = {}
    /\ stores = EmptyMap
    /\ pc = "import"
    /\ todo = {}
    /\ cur = None
    /\ storesLeft = {}
    /\ data = << >>
    /\ pairs = << >>
    /\ csvOut = << >>
    /\ file \in LedgerFiles
    /\ diskFaulty = FALSE
    /\ wfail = FALSE
    /\ lookups = << >>
    /\ actions = EmptyMap
    /\ rActions = EmptyMap
    /\ rTodo = {}
    /\ rCur = None
    /\ rIdx = 0
    /\ calls = << >>
    /\ dryLog = << >>
    /\ FrontIdle
    /\ PrevIdle

\* rot.go 535-608: open the report file, load it, reconcile what it holds.
ImportLoad ==
    /\ pc = "import"
    /\ \E openErr \in BOOLEAN :
          IF openErr
          THEN pc' = "fatalOpen" /\ UNCHANGED << rActions, rTodo, rCur, rIdx >>
          ELSE \E r \in { LoadLedger(file) } :
                  IF r.status # "ok"
                  THEN pc' = r.status /\ UNCHANGED << rActions, rTodo, rCur, rIdx >>
                  ELSE IF DOMAIN r.actions = {}
                  THEN pc' = "done" /\ rActions' = r.actions /\ UNCHANGED << rTodo, rCur, rIdx >>
                  ELSE ReconcileEnter(r.actions)
    /\ UNCHANGED << cmd, dryRun, inputVars, genVars, calls, dryLog >>

NextLoad ==
    \/ ImportLoad
    \/ ReconcileStep
    \/ ReconcileReturn

LoadSpec == InitLoad /\ [][NextLoad]_vars

\* The record is the audit header without regard to case: no field of
\* LedgerRows holds a comma, so the comma-joined lines are equal exactly when
\* the fields are.
HeaderLine(row) ==
    /\ Len(row) = Len(AuditHeader)
    /\ \A c \in 1..Len(row) : Lower(row[c], 1) = Lower(AuditHeader[c], 1)

\* Some record that is not a header comes before any header.
RowBeforeHeader(f) ==
    \E i \in 1..Len(f) : \A j \in 1..i : ~HeaderLine(f[j])

\* Nothing of the file was reconstructed or applied.
NothingApplied ==
    /\ rActions = EmptyMap
    /\ calls = << >>
    /\ dryLog = << >>

(***************************************************************************)
(* C15.  Ledger load header gate: a record is taken as data only after a   *)
(* record equal to the audit header (as the comma-joined line, without     *)
(* regard to case) has been seen; if any record precedes the header the    *)
(* load is fatal and no Action is reconstructed or applied; a header in    *)
(* another case is accepted as the header.                                 *)
(***************************************************************************)
C15_HeaderGate ==
    pc # "import" =>
        /\ RowBeforeHeader(file) => (pc \in {"fatal", "fatalOpen"} /\ NothingApplied)
        /\ \A t \in DOMAIN rActions : \A k \in 1..Len(rActions[t]) :
              \E i \in 2..Len(file) :
                  /\ file[i][ColumnOf("Thumbprint")] = t
                  /\ \E j \in 1..(i - 1) : HeaderLine(file[j])
        /\ (Len(file) >= 2 /\ file[1] # AuditHeader /\ HeaderLine(file[1])
             /\ file[2] = GoodAddRow /\ Len(file[Len(file)]) = Len(AuditHeader)
             /\ ReadAllOk(file))
               => pc \notin {"fatal"}

\* A run that rejected a file whose data row comes before its header.
C15_Witness ==
    /\ pc = "fatal"
    /\ Len(file) = 2
    /\ file[1] = GoodAddRow
    /\ file[2] = AuditHeader
    /\ NothingApplied

(***************************************************************************)
(* C16.  Ledger load is fail-fast: if a data record of the file cannot be  *)
(* mapped to an Action (CertID no integer, AddCert or RemoveCert no        *)
(* boolean literal, columns missing), the load fails and nothing of the    *)
(* file is reconstructed or applied.                                       *)
(***************************************************************************)
BoolLiterals ==
    {"1", "t", "T", "TRUE", "true", "True", "0", "f", "F", "FALSE", "false", "False"}

Mappable(row) ==
    /\ Len(row) = Len(AuditHeader)
    /\ AtoiOk(row[ColumnOf("CertID")])
    /\ row[ColumnOf("AddCert")] \in BoolLiterals
    /\ row[ColumnOf("RemoveCert")] \in BoolLiterals

C16_FailFast ==
    (pc # "import" /\ \E i \in 1..Len(file) : ~HeaderLine(file[i]) /\ ~Mappable(file[i]))
        => (pc \in {"fatal", "fatalOpen", "panic"} /\ NothingApplied)

(***************************************************************************)
(* C19.  Ledger I/O failure is fatal: if the ledger file cannot be created *)
(* or its header cannot be written, the run stops at once: no AuditRow is  *)
(* generated, no certificate is looked up, no Action is returned, no add   *)
(* or remove request is issued.  (Writes of rows do not fail in Spec, so a *)
(* ledger that is empty after generateAuditReport began is one that could  *)
(* not be created or did not take its header.)                             *)
(***************************************************************************)
C19_LedgerIOFatal ==
    (cmd \in {"audit", "reconcile"} /\ data # << >> /\ file = << >>) =>
        /\ pc = "fatal"
        /\ data = << AuditHeader >>
        /\ pairs = << >>
        /\ lookups = << >>
        /\ actions = EmptyMap
        /\ rActions = EmptyMap
        /\ calls = << >>
        /\ dryLog = << >>
        /\ ~ENABLED Next

\* A reconcile run with work to do that ended on the header write.
C19_Witness ==
    /\ pc = "fatal"
    /\ cmd = "reconcile"
    /\ ~dryRun
    /\ addCerts # {}
    /\ DOMAIN stores # {}
    /\ csvOut = << AuditHeader >>
    /\ file = << >>

(***************************************************************************)
(* The audit run twice on the same lists and stores (specification         *)
(* TwiceSpec).                                                             *)
(***************************************************************************)
InitTwice ==
    /\ cmd = "audit"
    /\ dryRun = FALSE
    /\ now = CHOOSE t \in TimeStamps : TRUE
    /\ addCerts \in SUBSET Thumbs
    /\ removeCerts \in SUBSET Thumbs
    /\ Cardinality(addCerts) + Cardinality(removeCerts) <= MaxListed
    /\ \E inv \in StoreMaps : stores = MkStores(inv)
    /\ pc = "start"
    /\ todo = {}
    /\ cur = None
    /\ storesLeft = {}
    /\ data = << >>
    /\ pairs = << >>
    /\ csvOut = << >>
    /\ file = << >>
    /\ diskFaulty = FALSE
    /\ wfail = FALSE
    /\ lookups = << >>
    /\ actions = EmptyMap
    /\ rActions = EmptyMap
    /\ rTodo = {}
    /\ rCur = None
    /\ rIdx = 0
    /\ calls = << >>
    /\ dryLog = << >>
    /\ FrontIdle
    /\ PrevIdle

\* The data rows of the table.
DataRows == { data[i] : i \in 2..Len(data) }

\* The lookups issued, with their outcomes.
LookupSet == { lookups[k] : k \in 1..Len(lookups) }

\* The audit command is run again, later, on the same lists and the same
\* stores: generateAuditReport starts over (rot.go 95-113).
AuditAgain ==
    /\ pc = "done"
    /\ cmd = "audit"
    /\ run = 1
    /\ run' = 2
    /\ prevRows' = DataRows
    /\ prevLookups' = LookupSet
    /\ now' \in TimeStamps
    /\ pc' = "start"
    /\ todo' = {}
    /\ cur' = None
    /\ storesLeft' = {}
    /\ data' = << >>
    /\ pairs' = << >>
    /\ csvOut' = << >>
    /\ file' = << >>
    /\ wfail' = FALSE
    /\ lookups' = << >>
    /\ actions' = EmptyMap
    /\ UNCHANGED << cmd, dryRun, addCerts, removeCerts, stores, diskFaulty,
                    frontVars, recVars >>

NextTwice ==
    \/ GenOpen
    \/ AddLookup
    \/ AddRow
    \/ AddDone
    \/ RemoveLookup
    \/ RemoveRow
    \/ GenClose
    \/ AuditReturn
    \/ AuditAgain

TwiceSpec == InitTwice /\ [][NextTwice]_vars

\* A row without its AuditDate column.
StripDate(row) ==
    IF Len(row) >= ColumnOf("AuditDate")
    THEN SubSeq(row, 1, ColumnOf("AuditDate") - 1)
    ELSE row

(***************************************************************************)
(* C20.  Idempotence of audit: a second generateAuditReport run on the     *)
(* same lists and stores, in which the same thumbprints resolve, returns   *)
(* the same set of rows as the first when the AuditDate column is set      *)
(* aside; no run changes a store's thumbprint index or issues an add or    *)
(* remove request.                                                         *)
(***************************************************************************)
C20_AuditIdempotent ==
    /\ [](( run = 2 /\ pc = "returned" /\ LookupSet = prevLookups ) =>
            { StripDate(r) : r \in DataRows } = { StripDate(r) : r \in prevRows })
    /\ [](calls = << >>)
    /\ [][stores' = stores]_vars

\* A second run that returned rows equal to the first run's up to their
\* AuditDate, which differs.
C20_Witness ==
    /\ run = 2
    /\ pc = "returned"
    /\ LookupSet = prevLookups
    /\ Cardinality(DataRows) >= 2
    /\ \E r \in DataRows : r \notin prevRows
    /\ \E r \in DataRows : Len(r) < Len(AuditHeader)

(***************************************************************************)
(* C21.  Certificate resolution is cached per run: within one              *)
(* generateAuditReport run the certificate lookup is issued at most once   *)
(* for any thumbprint, a thumbprint in both lists included.                *)
(***************************************************************************)
C21_LookupOncePerThumbprint ==
    \A t \in Thumbs :
        Cardinality({ k \in 1..Len(lookups) : lookups[k].cert = t }) <= 1

(***************************************************************************)
(* generateAuditReport on a disk whose writes may start to fail            *)
(* (specification FaultSpec).                                              *)
(***************************************************************************)
InitFault ==
    /\ cmd = "audit"
    /\ dryRun = FALSE
    /\ now = CHOOSE t \in TimeStamps : TRUE
    /\ addCerts \in SUBSET Thumbs
    /\ removeCerts \in SUBSET Thumbs
    /\ Cardinality(addCerts) + Cardinality(removeCerts) <= MaxListed
    /\ \E inv \in StoreMaps : stores = MkStores(inv)
    /\ pc = "start"
    /\ todo = {}
    /\ cur = None
    /\ storesLeft = {}
    /\ data = << >>
    /\ pairs = << >>
    /\ csvOut = << >>
    /\ file = << >>
    /\ diskFaulty = TRUE
    /\ wfail = FALSE
    /\ lookups = << >>
    /\ actions = EmptyMap
    /\ rActions = EmptyMap
    /\ rTodo = {}
    /\ rCur = None
    /\ rIdx = 0
    /\ calls = << >>
    /\ dryLog = << >>
    /\ FrontIdle
    /\ PrevIdle

NextFault ==
    \/ GenOpen
    \/ AddLookup
    \/ AddRow
    \/ AddDone
    \/ RemoveLookup
    \/ RemoveRow
    \/ GenClose
    \/ AuditReturn

FaultSpec == InitFault /\ [][NextFault]_vars

\* The row and the actions of a pairing, as a run whose writes all succeed
\* produces them.
RowFor(pass, t, s) ==
    IF pass = "add" THEN AddPassRow(t, stores[s]) ELSE RemovePassRow(t, stores[s])
ActionsFor(pass, t, s) ==
    IF pass = "add" THEN AddPassActions(t, stores[s]) ELSE RemovePassActions(t, stores[s])

RECURSIVE AppendedFor(_, _)
\* The actions the first n pairings appended for thumbprint t, in order.
AppendedFor(t, n) ==
    IF n = 0 THEN << >>
    ELSE AppendedFor(t, n - 1)
           \o (IF pairs[n].cert = t THEN pairs[n].appended ELSE << >>)

(***************************************************************************)
(* C22.  Row write failure does not abort: whichever writes fail, every    *)
(* pairing's row is in the in-memory table and its Action (if any) in the  *)
(* actions map, the remaining pairings are gone through, and what          *)
(* generateAuditReport returns is what a run without write failures        *)
(* returns: one row per (pass, resolved thumbprint, store), each the row   *)
(* of its pairing, and the actions of the pairings in order.               *)
(***************************************************************************)
C22_WriteFailureNoAbort ==
    /\ Len(data) = Len(pairs) + 1 \/ pc \in {"start", "fatal"}
    /\ \A i \in 1..Len(pairs) :
          /\ i + 1 <= Len(data)
          /\ data[i + 1] = RowFor(pairs[i].pass, pairs[i].cert, pairs[i].store)
          /\ pairs[i].appended = ActionsFor(pairs[i].pass, pairs[i].cert, pairs[i].store)
    /\ \A t \in Thumbs : ActionList(t) = AppendedFor(t, Len(pairs))
    /\ pc \in {"returned", "done"} =>
          /\ Len(pairs) = Cardinality(DOMAIN stores)
                          * (Cardinality(Resolved("add")) + Cardinality(Resolved("remove")))
          /\ { << pairs[i].pass, pairs[i].cert, pairs[i].store >> : i \in 1..Len(pairs) }
               = { << "add", t, s >> : t \in Resolved("add"), s \in DOMAIN stores }
                 \cup { << "remove", t, s >> : t \in Resolved("remove"), s \in DOMAIN stores }

\* A run that returned two rows and an action after the write of its first
\* row had failed.
C22_Witness ==
    /\ pc = "returned"
    /\ Len(data) = 3
    /\ csvOut = data
    /\ file = << AuditHeader >>
    /\ DOMAIN actions # {}

\* generateAuditReport is past csvWriter.Flush and csvFile.Close with the
\* whole ledger on disk: every listed thumbprint was looked up, there is one
\* row per (pass, resolved thumbprint, store), and the file holds the header
\* and every row of the table.
LedgerClosed ==
    /\ pc \in {"reconcile", "done"}
    /\ { lookups[k].cert : k \in { j \in 1..Len(lookups) : lookups[j].pass = "add" } }
         = addCerts
    /\ { lookups[k].cert : k \in { j \in 1..Len(lookups) : lookups[j].pass = "remove" } }
         = removeCerts
    /\ Len(data) - 1 = Cardinality(DOMAIN stores)
                       * (Cardinality(Resolved("add")) + Cardinality(Resolved("remove")))
    /\ csvOut = data
    /\ file = data

RECURSIVE IsPrefix(_, _)
\* Sequence a is a prefix of sequence b.
IsPrefix(a, b) ==
    \/ a = << >>
    \/ /\ Len(a) <= Len(b)
       /\ a[Len(a)] = b[Len(a)]
       /\ IsPrefix(SubSeq(a, 1, Len(a) - 1), b)

(***************************************************************************)
(* C24.  Ledger order equals generation order: at every point of           *)
(* generateAuditReport after the header was written, the rows handed to    *)
(* the ledger writer are the in-memory table so far, header first and the  *)
(* data rows in the same order, so the final ledger is the table row for   *)
(* row (on a disk that fails, the file holds the rows up to the first      *)
(* failed write).                                                          *)
(***************************************************************************)
C24_LedgerOrder ==
    pc \notin {"start", "fatal"} =>
        /\ csvOut = data
        /\ data[1] = AuditHeader
        /\ IsPrefix(file, data)
        /\ ~wfail => file = data

\* A run that wrote an add-pass row and then a remove-pass row, the second
\* one a no-op.
C24_Witness ==
    /\ pc = "returned"
    /\ Len(csvOut) = 3
    /\ pairs[1].pass = "add"
    /\ pairs[2].pass = "remove"
    /\ pairs[2].appended = << >>
    /\ ~wfail

\* The requests issued for thumbprint th are for its actions in list order,
\* each built from the action at its index.
CallsInListOrder(th) ==
    \A k \in 1..Len(calls) :
        calls[k].thumbprint = th =>
            /\ calls[k].idx \in 1..Len(rActions[th])
            /\ calls[k] = Request(calls[k].op, th, calls[k].idx,
                                  rActions[th][calls[k].idx], calls[k].err)
            /\ calls[k].op = IF rActions[th][calls[k].idx].AddCert
                             THEN "add" ELSE "remove"
            /\ \A l \in 1..Len(calls) :
                  (k < l /\ calls[l].thumbprint = th) => calls[k].idx < calls[l].idx

\* The requests of one thumbprint are not interleaved with another's.
CallsContiguous ==
    \A k, l, m \in 1..Len(calls) :
        (k < l /\ l < m /\ calls[k].thumbprint = calls[m].thumbprint)
            => calls[l].thumbprint = calls[k].thumbprint

(***************************************************************************)
(* C25.  Per-thumbprint FIFO: actions[thumbprint] lists the thumbprint's   *)
(* Actions in the order the (pass, store) iterations appended them, all    *)
(* add-pass Actions before the remove-pass Actions, and reconcileRoots     *)
(* issues the requests of one thumbprint in exactly that list order and    *)
(* finishes one thumbprint's list before it starts another's; a run that   *)
(* is not a dry run has issued one request per Action when it is done.     *)
(***************************************************************************)
C25_PerThumbprintFIFO ==
    /\ \A t \in Thumbs :
          /\ ActionList(t) = AppendedFor(t, Len(pairs))
          /\ \A i, j \in 1..Len(ActionList(t)) :
                (ActionList(t)[i].RemoveCert /\ ActionList(t)[j].AddCert) => j < i
    /\ \A i, j \in 1..Len(pairs) :
          (pairs[i].pass = "remove" /\ pairs[j].pass = "add") => j < i
    /\ cmd = "reconcile" /\ pc \in {"reconcile", "done"} =>
          /\ rActions = actions
          /\ \A th \in DOMAIN rActions : CallsInListOrder(th)
          /\ \A k \in 1..Len(calls) : calls[k].thumbprint \in DOMAIN rActions
          /\ CallsContiguous
          /\ (pc = "done" /\ ~dryRun) =>
                \A th \in DOMAIN rActions :
                    { calls[k].idx : k \in { l \in 1..Len(calls) : calls[l].thumbprint = th } }
                      = 1..Len(rActions[th])

\* A finished reconcile run whose map holds, for one thumbprint, an add-pass
\* Action followed by a remove-pass Action, and that issued the add request
\* and then the remove request.
C25_Witness ==
    /\ cmd = "reconcile"
    /\ pc = "done"
    /\ ~dryRun
    /\ Len(calls) = 2
    /\ calls[1].op = "add"
    /\ calls[2].op = "remove"
    /\ calls[1].thumbprint = calls[2].thumbprint
    /\ calls[1].idx = 1
    /\ calls[2].idx = 2

\* actions[t] holds an AddCert Action and a RemoveCert Action for store s.
BothFor(t, s) ==
    /\ \E k \in 1..Len(ActionList(t)) :
          ActionList(t)[k].StoreID = s /\ ActionList(t)[k].AddCert
    /\ \E k \in 1..Len(ActionList(t)) :
          ActionList(t)[k].StoreID = s /\ ActionList(t)[k].RemoveCert

(***************************************************************************)
(* C26.  Thumbprint in both lists.  The claim is that some input (a        *)
(* thumbprint in both addList and removeList, stores from one inventory    *)
(* snapshot) makes the actions map hold an AddCert Action and a RemoveCert *)
(* Action for that thumbprint against the same store ID.  What holds       *)
(* instead, for every input: the map never holds both for the same store   *)
(* ID, since both passes test the same snapshot (add iff not deployed,     *)
(* remove iff deployed); for a thumbprint resolved in both passes every    *)
(* store gets exactly one Action, so both kinds occur only against         *)
(* different stores.                                                       *)
(***************************************************************************)
C26_NeverSameStore ==
    /\ \A t \in Thumbs, s \in DOMAIN stores : ~BothFor(t, s)
    /\ pc = "returned" =>
          \A t \in Resolved("add") \cap Resolved("remove"), s \in DOMAIN stores :
              /\ CountActions(t, s, TRUE, FALSE) = (IF t \in stores[s].Thumbprints THEN 0 ELSE 1)
              /\ CountActions(t, s, FALSE, TRUE) = (IF t \in stores[s].Thumbprints THEN 1 ELSE 0)

\* generateAuditReport returned for a thumbprint of both lists, resolved in
\* both passes, over two stores of which one holds it: the map has the add
\* for one store and the remove for the other, two Actions in all.
C26_Witness ==
    /\ pc = "returned"
    /\ \E t \in addCerts \cap removeCerts :
          /\ t \in Resolved("add") \cap Resolved("remove")
          /\ Cardinality(DOMAIN stores) = 2
          /\ \E s1, s2 \in DOMAIN stores :
                /\ s1 # s2
                /\ t \notin stores[s1].Thumbprints
                /\ t \in stores[s2].Thumbprints
                /\ CountActions(t, s1, TRUE, FALSE) = 1
                /\ CountActions(t, s2, FALSE, TRUE) = 1
          /\ Len(ActionList(t)) = 2

\* C26 as claimed, on the inputs it names: when generateAuditReport has
\* returned for a thumbprint of both lists that resolved in both passes,
\* some store has both an AddCert and a RemoveCert Action for it.
C26_BothForSameStore ==
    (pc = "returned" /\ DOMAIN stores # {}) =>
        \A t \in Resolved("add") \cap Resolved("remove") :
            \E s \in DOMAIN stores : BothFor(t, s)

(***************************************************************************)
(* C27.  Stores-file header validation: in the audit and in the reconcile  *)
(* (non-import) command, a stores file whose first row is not the header   *)
(* aborts the load at that row: no store of it is looked up, no row of it  *)
(* is dropped silently and no data row is taken for the header.            *)
(***************************************************************************)
C27_StoresHeaderValidated ==
    (/\ cmd \in {"audit", "reconcile"}
     /\ Len(storesFile) >= 1
     /\ ~IsStoreHeader(storesFile[1])
     /\ sIdx >= 1)
        => (pc = "fatalHeader" /\ storeLookups = << >>)

\* A ledger as the spec describes a well-formed one: the header first, then
\* rows of 12 columns whose CertID is an integer and whose AddCert and
\* RemoveCert are boolean literals.
WellFormedLedger(f) ==
    /\ Len(f) >= 1
    /\ HeaderLine(f[1])
    /\ \A i \in 2..Len(f) : Mappable(f[i])

\* The Action the spec's column typing gives for a well-formed row: CertID an
\* integer, the two flags booleans, every other column the string it is.
TypedAction(row) ==
    ROTAction(row[ColumnOf("Thumbprint")], Atoi(row[ColumnOf("CertID")]),
              row[ColumnOf("StoreID")], row[ColumnOf("StoreType")],
              row[ColumnOf("Path")], ParseBool(row[ColumnOf("AddCert")]),
              ParseBool(row[ColumnOf("RemoveCert")]))

(***************************************************************************)
(* C28.  Typed column parsing on load: only CertID is read as an integer   *)
(* and only AddCert/RemoveCert as booleans, so a well-formed ledger whose  *)
(* string columns hold only decimal digits loads (no fatal exit, no panic) *)
(* and every row's Action keeps those columns as the strings of the row.   *)
(***************************************************************************)
C28_TypedColumns ==
    (pc \notin {"import", "fatalOpen"} /\ WellFormedLedger(file)) =>
        /\ pc \notin {"fatal", "panic"}
        /\ \A i \in 2..Len(file) :
              /\ file[i][ColumnOf("Thumbprint")] \in DOMAIN rActions
              /\ \E k \in 1..Len(rActions[file[i][ColumnOf("Thumbprint")]]) :
                    rActions[file[i][ColumnOf("Thumbprint")]][k] = TypedAction(file[i])

(***************************************************************************)
(* C29.  Add takes precedence on a contradictory action: for an Action     *)
(* with AddCert and RemoveCert both true reconcileRoots issues only the    *)
(* add request (one, when the run is not a dry run) and never a remove     *)
(* request, and a dry run logs it as an add only; for an Action with       *)
(* neither flag it issues no request and logs nothing.                     *)
(***************************************************************************)
C29_AddPrecedence ==
    \A p \in Positions :
        /\ (ActionAt(p).AddCert /\ ActionAt(p).RemoveCert) =>
              /\ \A k \in CallsFor(p) : calls[k].op = "add" /\ calls[k].Overwrite
              /\ \A k \in DryLinesFor(p) : dryLog[k].op = "dryAdd"
              /\ Cardinality(CallsFor(p)) <= 1
              /\ (pc = "done" /\ ~dryRun) => Cardinality(CallsFor(p)) = 1
        /\ ~Flagged(p) => (CallsFor(p) = {} /\ DryLinesFor(p) = {})

\* A finished run, not a dry run, over a list that holds an Action with both
\* flags and an Action with neither: one add request in all.
C29_Witness ==
    /\ pc = "done"
    /\ ~dryRun
    /\ \E p, q \in Positions :
          /\ p[1] = q[1]
          /\ ActionAt(p).AddCert /\ ActionAt(p).RemoveCert
          /\ ~Flagged(q)
          /\ \E k \in CallsFor(p) : calls[k].op = "add"
    /\ Len(calls) = 1

(***************************************************************************)
(* C30.  Audit is read-only: the audit command issues no add and no remove *)
(* request, for any inputs and either value of --dry-run, and never enters *)
(* reconcileRoots; what it does is look up stores, inventories and         *)
(* certificates and write the ledger.                                      *)
(***************************************************************************)
C30_AuditReadOnly ==
    cmd = "audit" =>
        /\ calls = << >>
        /\ dryLog = << >>
        /\ rActions = EmptyMap
        /\ pc # "reconcile"

\* An audit without --dry-run that is done: it looked up a store and a
\* certificate, wrote a ledger row and planned an action, and issued nothing.
C30_Witness ==
    /\ cmd = "audit"
    /\ ~dryRun
    /\ pc = "done"
    /\ storeLookups # << >>
    /\ lookups # << >>
    /\ Len(file) >= 2
    /\ DOMAIN actions # {}
    /\ calls = << >>

====
